---- MODULE Spec2Model ----
(***************************************************************************)
(* Agent Resurrection Protocol: the checkpoint / resurrection core of      *)
(* src/arp/core.py (AgentCheckpoint, DecentralizedStorage,                 *)
(* AgentResurrection) and the persistence part of src/demo.py.             *)
(*                                                                         *)
(* A checkpoint is a record with the dataclass's fields.  The nested       *)
(* dicts (identity, memory, tasks, context) are sequences of <<key,value>> *)
(* pairs in insertion order, as a Python dict keeps them.  The files of    *)
(* ./checkpoints are two maps from the file's key to its JSON text.        *)
(***************************************************************************)
EXTENDS Integers, Sequences, FiniteSets, TLC

\* ----------------------------------------------------------------- bounds
\* Manager instances (AgentResurrection objects) ever constructed.
MaxManagers == 2
\* Calls of checkpoint() in one behaviour.
MaxSaves == 3
\* Calls of checkpoint() in one end-to-end run (SpecE2E).
MaxE2ESaves == 8
\* Sequence numbers of the records handed to compute_hash (SpecHash): 0..MaxProbeSeq.
MaxProbeSeq == 1
\* Calls of compute_hash on one record (SpecHash).
MaxProbeCalls == 2
\* Calls of checkpoint() in one behaviour with retries (SpecRetry).
MaxRetrySaves == 2
\* Calls of execute() and hibernate() begun in one behaviour (SpecCalls).
MaxCalls == 2
\* The agent ids in use.
Agents == {"A", "B"}

VARIABLES
    hot_files,   \* checkpoints/{agent_id}_hot.json : agent_id -> JSON text
    cold_files,  \* checkpoints/{agent_id}_{sequence}.json : <<agent_id, sequence>> -> JSON text
    storages,    \* the DecentralizedStorage instances: sequence of hot_cache dicts
    managers,    \* the AgentResurrection instances, in construction order
    clock,       \* what datetime.now(timezone.utc) returns: time passes
                 \* between two calls of checkpoint(), so no two read the same
    log,         \* history: the checkpoints whose save returned, in creation order
    origin,      \* history: per manager, the save that was its agent's latest
                 \* when load() made it (<<>> for a manager made directly)
    last,        \* history: the last call and what it returned or raised
    agents,      \* the attached executors (self.agent): manager -> its state
    calls,       \* the execute()/hibernate() calls begun, step by step
    probe        \* a record handed to compute_hash, and the digests it gave

vars ==
    <<hot_files, cold_files, storages, managers, clock, log, origin, last,
      agents, calls, probe>>

\* What the operations on whole managers leave alone.
aux == <<agents, calls, probe>>

\* ------------------------------------------------------ JSON and hashing
\* Alphabetical order of the keys that occur, for json.dumps(sort_keys=True).
KeyOrder ==
    <<"active", "address", "agent_id", "checksum", "identity", "memory",
      "public_key", "queued", "sequence", "session_id", "short_term", "tasks">>

Rank(k) == CHOOSE i \in DOMAIN KeyOrder : KeyOrder[i] = k

\* The pairs of dict d in ascending key order.
SortKeys(d) ==
    [i \in 1..Len(d) |->
        d[CHOOSE j \in 1..Len(d) :
            Cardinality({k \in 1..Len(d) : Rank(d[k][1]) < Rank(d[j][1])}) = i - 1]]

\* A payload dumped without sort_keys: the dicts in insertion order.
HashPayload_Unsorted(c) ==
    << <<"agent_id", c.agent_id>>,
       <<"identity", c.identity>>,
       <<"memory", c.memory>>,
       <<"sequence", c.sequence>>,
       <<"tasks", c.tasks>> >>

\* A payload that also holds the timestamp.
HashPayload_WithTimestamp(c) ==
    << <<"agent_id", c.agent_id>>,
       <<"identity", SortKeys(c.identity)>>,
       <<"memory", SortKeys(c.memory)>>,
       <<"sequence", c.sequence>>,
       <<"tasks", SortKeys(c.tasks)>>,
       <<"timestamp", c.timestamp>> >>

\* json.dumps({...}, sort_keys=True) of the five hashed fields: the text, as
\* the sequence of its <<key, value>> members in sorted key order.
HashPayload(c) ==
    << <<"agent_id", c.agent_id>>,
       <<"identity", SortKeys(c.identity)>>,
       <<"memory", SortKeys(c.memory)>>,
       <<"sequence", c.sequence>>,
       <<"tasks", SortKeys(c.tasks)>> >>

\* hashlib.sha256(text).hexdigest()[:16]: a digest that is a function of the
\* text alone; SHA-256 is taken to be collision free on the texts that occur.
sha256_hex16(text) == <<"sha256/16", text>>

\* The state_hash of a record not hashed yet (state_hash="").
EmptyHash == <<>>

\* AgentCheckpoint.compute_hash
compute_hash(c) == sha256_hex16(HashPayload(c))

\* The dataclass's fields, in declaration order.
Fields ==
    <<"agent_id", "sequence", "timestamp", "state_hash", "identity", "memory",
      "tasks", "context", "storage">>

\* AgentCheckpoint.to_dict: asdict(self), a dict keyed by field name.
to_dict(c) == [k \in {Fields[i] : i \in DOMAIN Fields} |-> c[k]]

\* json.dumps(data, indent=2): the text, as the sequence of the dict's
\* <<key, value>> members in the dict's order.
json_dumps(data) == [i \in DOMAIN Fields |-> <<Fields[i], data[Fields[i]]>>]

\* json.loads(text): a dict with the text's members.
json_loads(text) ==
    [k \in {text[i][1] : i \in DOMAIN text} |->
        text[CHOOSE i \in DOMAIN text : text[i][1] = k][2]]

\* AgentCheckpoint(**data)
FromDict(data) ==
    [agent_id |-> data["agent_id"], sequence |-> data["sequence"],
     timestamp |-> data["timestamp"], state_hash |-> data["state_hash"],
     identity |-> data["identity"], memory |-> data["memory"],
     tasks |-> data["tasks"], context |-> data["context"],
     storage |-> data["storage"]]

\* ---------------------------------------------------- DecentralizedStorage
\* save_checkpoint, hot tier: self.hot_cache[checkpoint.agent_id] = data
HotCachePut(cache, c) == (c.agent_id :> to_dict(c)) @@ cache

\* A save that serializes the hot file before the hash is computed.
WriteHot_BeforeHash(files, c) ==
    (c.agent_id :> json_dumps(to_dict([c EXCEPT !.state_hash = EmptyHash]))) @@ files

\* A save whose hot file is one file for every agent.
WriteHot_OneFile(files, c) ==
    [a \in DOMAIN files \cup {c.agent_id} |-> json_dumps(to_dict(c))]

\* save_checkpoint, hot tier: hot_path.write_text(json.dumps(data, indent=2))
WriteHot(files, c) == (c.agent_id :> json_dumps(to_dict(c))) @@ files

\* A save that serializes the cold file after the locators are assigned.
WriteCold_WithLocators(files, c) ==
    (<<c.agent_id, c.sequence>> :>
        json_dumps(to_dict([c EXCEPT !.storage =
            [hot |-> <<"file", c.agent_id, "hot">>,
             cold |-> <<"file", c.agent_id, c.sequence>>,
             ipfs |-> <<"ipfs://Qm", c.state_hash>>,
             arweave |-> <<"arweave://", c.state_hash>>]]))) @@ files

\* save_checkpoint, cold tier: cold_path.write_text(json.dumps(data, indent=2))
WriteCold(files, c) ==
    (<<c.agent_id, c.sequence>> :> json_dumps(to_dict(c))) @@ files

\* save_checkpoint's return value: a locator per tier.
Locators(c) ==
    [hot |-> <<"file", c.agent_id, "hot">>,
     cold |-> <<"file", c.agent_id, c.sequence>>,
     ipfs |-> <<"ipfs://Qm", c.state_hash>>,
     arweave |-> <<"arweave://", c.state_hash>>]

\* A load that looks in the hot cache only, never at the hot file.
load_checkpoint_CacheOnly(cache, files, agent_id) ==
    IF agent_id \in DOMAIN cache THEN <<FromDict(cache[agent_id])>> ELSE <<>>

\* load_checkpoint: the record as a sequence of length 1, or <<>> for None.
load_checkpoint(cache, files, agent_id) ==
    IF agent_id \in DOMAIN cache
        THEN <<FromDict(cache[agent_id])>>
    ELSE IF agent_id \in DOMAIN files
        THEN <<FromDict(json_loads(files[agent_id]))>>
    ELSE <<>>

\* A load that keeps the record it read in the hot cache (read-through).
CacheAfterLoad_ReadThrough(cache, cp) ==
    IF cp = <<>> THEN cache ELSE HotCachePut(cache, cp[1])

\* load_checkpoint: the hot cache of the storage after the call; neither
\* branch assigns to self.hot_cache.
CacheAfterLoad(cache, cp) == cache

\* ------------------------------------------------------- AgentResurrection
\* An __init__ that resumes after the record the hot file holds.
NewManager_ResumesFromStorage(agent_id, s) ==
    [agent_id |-> agent_id, storage |-> s,
     sequence |-> IF agent_id \in DOMAIN hot_files
                      THEN FromDict(json_loads(hot_files[agent_id])).sequence + 1
                      ELSE 0,
     checkpoints_saved |-> 0]

\* __init__: a manager bound to agent_id, using storage instance s.  The
\* attached executor (self.agent) is outside the subsystem: it decides only
\* the result execute() returns, never what checkpoint() builds or saves.
NewManager(agent_id, s) ==
    [agent_id |-> agent_id, storage |-> s, sequence |-> 0,
     checkpoints_saved |-> 0]

\* checkpoint(): the record built from the manager and the clock, hashed.
BuildCheckpoint(mgr, now) ==
    LET c == [agent_id |-> mgr.agent_id,
              sequence |-> mgr.sequence,
              timestamp |-> now,
              state_hash |-> EmptyHash,
              identity |-> << <<"public_key", "pk_" \o mgr.agent_id>>,
                              <<"address", mgr.agent_id>> >>,
              memory |-> << <<"short_term", "[]">>,
                            <<"checksum", "sha256(memory)[:16]">> >>,
              tasks |-> << <<"active", "[]">>, <<"queued", "[]">> >>,
              context |-> << <<"session_id", "sess_" \o ToString(mgr.sequence)>> >>,
              storage |-> <<>>]
    IN  [c EXCEPT !.state_hash = compute_hash(c)]

\* A checkpoint() that forgets to advance the sequence counter.
AfterCheckpoint_NoIncrement(mgr) == [mgr EXCEPT !.checkpoints_saved = @ + 1]

\* checkpoint(): self.sequence += 1; checkpoints_saved += 1
AfterCheckpoint(mgr) ==
    [mgr EXCEPT !.sequence = @ + 1, !.checkpoints_saved = @ + 1]

\* A load() that resumes at the loaded sequence number itself.
ResumeSequence_SameNumber(cp) == cp.sequence

\* load(): instance.sequence = checkpoint.sequence + 1
ResumeSequence(cp) == cp.sequence + 1

\* A load() that constructs the instance before it looks at the checkpoint.
LoadInstances_ConstructFirst(cp, agent_id, s) ==
    IF cp = <<>>
        THEN <<NewManager(agent_id, s)>>
        ELSE <<[NewManager(agent_id, s) EXCEPT !.sequence = cp[1].sequence + 1]>>

\* load(): the instances it constructs from what load_checkpoint returned
\* (none when it raises ValueError), on the storage instance s it made.
LoadInstances(cp, agent_id, s) ==
    IF cp = <<>>
        THEN <<>>
        ELSE <<[NewManager(agent_id, s) EXCEPT !.sequence = ResumeSequence(cp[1])]>>

\* ----------------------------------------------------------------- history
\* The agent ids that a manager or a file already carries.
KnownIds ==
    {managers[i].agent_id : i \in DOMAIN managers}
        \cup DOMAIN hot_files \cup {k[1] : k \in DOMAIN cold_files}

\* The saves of agent_id that returned, oldest first.
SavedOf(agent_id) == SelectSeq(log, LAMBDA e : e.rec.agent_id = agent_id)

\* The newest save of agent_id, as a sequence of length 0 or 1.
LatestSaved(agent_id) ==
    IF SavedOf(agent_id) = <<>>
        THEN <<>>
        ELSE <<SavedOf(agent_id)[Len(SavedOf(agent_id))]>>

\* A call as the history variable `last` records it: the operation, the
\* agent id and manager it was for, how it ended ("ok" or the exception), the
\* checkpoint it returned or tried to save (ret) and, for a failed save, what
\* load_checkpoint returned on the same storage instance before (before).
Call(op, agent_id, m, outcome, ret, before) ==
    [op |-> op, agent |-> agent_id, mgr |-> m, outcome |-> outcome,
     ret |-> ret, before |-> before]

NoCall == Call("none", "", 0, "", <<>>, <<>>)

\* No record handed to compute_hash yet.
NoProbe == [rec |-> <<>>, digests |-> <<>>]

Init ==
    /\ hot_files = <<>>
    /\ cold_files = <<>>
    /\ storages = <<>>
    /\ managers = <<>>
    /\ clock = 0
    /\ log = <<>>
    /\ origin = <<>>
    /\ last = NoCall
    /\ agents = <<>>
    /\ calls = <<>>
    /\ probe = NoProbe

\* ----------------------------------------------------------------- actions
\* AgentResurrection(agent_id=None): a manager with a generated id, unique
\* in the namespace, and a DecentralizedStorage of its own.
ConstructFresh(agent_id) ==
    /\ agent_id \notin KnownIds
    /\ storages' = Append(storages, <<>>)
    /\ managers' = Append(managers, NewManager(agent_id, Len(storages) + 1))
    /\ origin' = Append(origin, <<>>)
    /\ last' = Call("construct", agent_id, Len(managers) + 1, "ok", <<>>, <<>>)
    /\ UNCHANGED <<hot_files, cold_files, clock, log>>
    /\ UNCHANGED aux

\* AgentResurrection(agent_id=agent_id, storage=...): a manager bound to a
\* given id, on storage instance s (an existing one, or with
\* s = Len(storages) + 1 one it makes itself).
ConstructWithId(agent_id, s) ==
    /\ s \in 1..(Len(storages) + 1)
    /\ storages' = IF s \in DOMAIN storages THEN storages
                                            ELSE Append(storages, <<>>)
    /\ managers' = Append(managers, NewManager(agent_id, s))
    /\ origin' = Append(origin, <<>>)
    /\ last' = Call("construct", agent_id, Len(managers) + 1, "ok", <<>>, <<>>)
    /\ UNCHANGED <<hot_files, cold_files, clock, log>>
    /\ UNCHANGED aux

\* A checkpoint() that counts the attempt whether or not the save returned.
AfterSave_CountsAttempt(mgr, fail) == AfterCheckpoint(mgr)

\* checkpoint() after the await of the save: the counters advance when the
\* save returned; an exception raised by the save skips both lines.
AfterSave(mgr, fail) == IF fail = "none" THEN AfterCheckpoint(mgr) ELSE mgr

\* checkpoint(): build, hash, save to every tier, then advance the counter.
\* save_checkpoint writes the cache, the hot file and the cold file in this
\* order; fail names the write that raises ("hot": hot_path.write_text,
\* "cold": cold_path.write_text, "none": every write succeeds).  An exception
\* leaves what was written before it and skips the rest of checkpoint().
Checkpoint(m, op, fail) ==
    LET mgr == managers[m]
        s == mgr.storage
        c == BuildCheckpoint(mgr, clock)
    IN  /\ storages' = [storages EXCEPT ![s] = HotCachePut(@, c)]
        /\ hot_files' = IF fail = "hot" THEN hot_files ELSE WriteHot(hot_files, c)
        /\ cold_files' = IF fail = "none" THEN WriteCold(cold_files, c)
                                          ELSE cold_files
        /\ managers' = [managers EXCEPT ![m] = AfterSave(@, fail)]
        /\ log' = IF fail = "none"
                      THEN Append(log, [op |-> op, mgr |-> m,
                                        nth |-> mgr.checkpoints_saved, rec |-> c])
                      ELSE log
        /\ last' = IF fail = "none"
                       THEN Call(op, mgr.agent_id, m, "ok",
                                 <<[c EXCEPT !.storage = Locators(c)]>>, <<>>)
                       ELSE Call(op, mgr.agent_id, m, "StorageWriteError", <<c>>,
                                 load_checkpoint(storages[s], hot_files, mgr.agent_id))
        /\ clock' = clock + 1
        /\ UNCHANGED origin
        /\ UNCHANGED aux

\* execute(task): the executor's call (or the stub), then checkpoint().
Execute(m) ==
    /\ m \in DOMAIN managers
    /\ Checkpoint(m, "execute", "none")

\* hibernate(): checkpoint() and return the checkpoint.
Hibernate(m) ==
    /\ m \in DOMAIN managers
    /\ Checkpoint(m, "hibernate", "none")

\* execute(task) whose save raises at the write named by fail.
ExecuteFails(m, fail) ==
    /\ m \in DOMAIN managers
    /\ Checkpoint(m, "execute", fail)

\* hibernate() whose save raises at the write named by fail.
HibernateFails(m, fail) ==
    /\ m \in DOMAIN managers
    /\ Checkpoint(m, "hibernate", fail)

\* AgentResurrection.load(agent_id): resurrect from a DecentralizedStorage
\* made for the call; raises ValueError when load_checkpoint returns None.
Resurrect(agent_id) ==
    LET s == Len(storages) + 1
        cp == load_checkpoint(<<>>, hot_files, agent_id)
        made == LoadInstances(cp, agent_id, s)
    IN  /\ managers' = managers \o made
        /\ storages' = IF made = <<>> THEN storages
                                      ELSE Append(storages, CacheAfterLoad(<<>>, cp))
        /\ origin' = IF made = <<>> THEN origin
                                    ELSE Append(origin, LatestSaved(agent_id))
        /\ last' = Call("resurrect", agent_id,
                        IF made = <<>> THEN 0 ELSE Len(managers) + 1,
                        IF cp = <<>> THEN "NotFound" ELSE "ok", cp, <<>>)
        /\ UNCHANGED <<hot_files, cold_files, clock, log>>
        /\ UNCHANGED aux

\* storage.load_checkpoint(agent_id) on the storage instance s.
Load(s, agent_id) ==
    LET cp == load_checkpoint(storages[s], hot_files, agent_id)
    IN  /\ s \in DOMAIN storages
        /\ storages' = [storages EXCEPT ![s] = CacheAfterLoad(@, cp)]
        /\ last' = Call("load", agent_id, 0,
                        IF cp = <<>> THEN "NotFound" ELSE "ok", cp, <<>>)
        /\ UNCHANGED <<hot_files, cold_files, managers, clock, log, origin>>
        /\ UNCHANGED aux

\* The memory member of a checkpoint file's text, changed on disk.
TamperedText(text) ==
    [i \in DOMAIN text |->
        IF text[i][1] = "memory"
            THEN <<"memory", << <<"short_term", "[tampered]">>,
                               <<"checksum", "sha256(memory)[:16]">> >> >>
            ELSE text[i]]

\* Something outside the program changes {agent_id}_hot.json on disk.
Tamper(agent_id) ==
    /\ agent_id \in DOMAIN hot_files
    /\ hot_files' = [hot_files EXCEPT ![agent_id] = TamperedText(@)]
    /\ last' = Call("tamper", agent_id, 0, "ok", <<>>, <<>>)
    /\ UNCHANGED <<cold_files, storages, managers, clock, log, origin>>
    /\ UNCHANGED aux

\* Something outside the program removes {agent_id}_hot.json: the fast tier
\* is lost (a cleaned cache, a cold restart) while the archive stays.
DropHot(agent_id) ==
    /\ agent_id \in DOMAIN hot_files
    /\ hot_files' = [a \in DOMAIN hot_files \ {agent_id} |-> hot_files[a]]
    /\ last' = Call("drop_hot", agent_id, 0, "ok", <<>>, <<>>)
    /\ UNCHANGED <<cold_files, storages, managers, clock, log, origin>>
    /\ UNCHANGED aux

\* ------------------------------------------------------- specifications
\* The program with every write succeeding.
Next ==
    \/ \E a \in Agents : Len(managers) < MaxManagers /\ ConstructFresh(a)
    \/ \E a \in Agents, s \in 1..MaxManagers :
        Len(managers) < MaxManagers /\ ConstructWithId(a, s)
    \/ \E m \in 1..MaxManagers : clock < MaxSaves /\ Execute(m)
    \/ \E m \in 1..MaxManagers : clock < MaxSaves /\ Hibernate(m)
    \/ \E a \in Agents :
        (Len(managers) < MaxManagers \/ a \notin DOMAIN hot_files) /\ Resurrect(a)

Spec == Init /\ [][Next]_vars

\* The program with file writes that may raise.
NextFail ==
    \/ Next
    \/ \E m \in 1..MaxManagers, f \in {"hot", "cold"} :
        clock < MaxSaves /\ ExecuteFails(m, f)
    \/ \E m \in 1..MaxManagers, f \in {"hot", "cold"} :
        clock < MaxSaves /\ HibernateFails(m, f)

SpecFail == Init /\ [][NextFail]_vars

\* The calls of managers made with a generated id or by load(), with file
\* writes that may raise and callers that call again.
NextRetry ==
    \/ \E a \in Agents : Len(managers) < MaxManagers /\ ConstructFresh(a)
    \/ \E a \in Agents :
        (Len(managers) < MaxManagers \/ a \notin DOMAIN hot_files) /\ Resurrect(a)
    \/ \E m \in 1..MaxManagers : clock < MaxRetrySaves /\ Execute(m)
    \/ \E m \in 1..MaxManagers : clock < MaxRetrySaves /\ Hibernate(m)
    \/ \E m \in 1..MaxManagers, f \in {"hot", "cold"} :
        clock < MaxRetrySaves /\ ExecuteFails(m, f)
    \/ \E m \in 1..MaxManagers, f \in {"hot", "cold"} :
        clock < MaxRetrySaves /\ HibernateFails(m, f)

SpecRetry == Init /\ [][NextRetry]_vars

\* The same, with callers that also load from the storage instances.
NextLoad ==
    \/ NextRetry
    \/ \E s \in 1..MaxManagers, a \in Agents : Load(s, a)

SpecLoad == Init /\ [][NextLoad]_vars

\* The program with a checkpoints directory that something else can change.
NextTamper ==
    \/ Next
    \/ \E a \in Agents : Tamper(a)
    \/ \E a \in Agents : DropHot(a)

SpecTamper == Init /\ [][NextTamper]_vars

\* Whether manager m has returned from hibernate().
Hibernated(m) == \E i \in DOMAIN log : log[i].mgr = m /\ log[i].op = "hibernate"

\* The end-to-end run of the demo: a fresh agent executes tasks, hibernates
\* and is discarded; the agent is resurrected and executes tasks.
NextE2E ==
    \/ \E a \in Agents : managers = <<>> /\ ConstructFresh(a)
    \/ Len(managers) = 1 /\ ~Hibernated(1) /\ clock < MaxE2ESaves /\ Execute(1)
    \/ Len(managers) = 1 /\ ~Hibernated(1) /\ clock < MaxE2ESaves /\ Hibernate(1)
    \/ Len(managers) = 1 /\ Hibernated(1) /\ Resurrect(managers[1].agent_id)
    \/ Len(managers) = 2 /\ clock < MaxE2ESaves /\ Execute(2)

SpecE2E == Init /\ [][NextE2E]_vars

\* execute() and hibernate() step by step.  A call is suspended where the
\* code awaits: "executor" in `await self.agent.execute(task)`, "save" in
\* `await self.storage.save_checkpoint(checkpoint)` with the record built
\* from the counter as it was read; other calls run while it is suspended.
\* Neither method takes a lock.
\* ResearchAgent.__init__: the demo's executor.
ResearchAgent == [memory |-> <<>>, tasks_completed |-> 0]

\* ResearchAgent.execute(task): memory.append(task); tasks_completed += 1
RunTask(ag, task) ==
    [memory |-> Append(ag.memory, task), tasks_completed |-> ag.tasks_completed + 1]

\* What the attached executor of manager m exposes, <<>> when there is none.
Exposed(m) == IF m \in DOMAIN agents THEN <<agents[m]>> ELSE <<>>

\* An execute() that checkpoints without calling the executor first.
FirstStep_CheckpointFirst(attached) == "save"

\* execute(): the executor's call when one is attached, else the stub
\* result and straight on to checkpoint().
FirstStep(attached) == IF attached THEN "executor" ELSE "save"

\* An execute() that checkpoints in a finally block.
OnException_Finally(pc) == IF pc = "executor" THEN "save" ELSE "done"

\* A checkpoint() whose save is shielded from cancellation.
OnException_Shielded(pc) == IF pc = "save" THEN "save" ELSE "done"

\* Where a call goes when an exception is raised at pc: execute(),
\* hibernate() and checkpoint() have no try, so it leaves the call.
OnException(pc) == "done"

\* A call begun: the manager, the operation, where it is, the record built
\* (<<>> before checkpoint() builds it), the counter and the executor's
\* state read when it was built, the exception pending, how it ended.
NewCall(m, op) ==
    [mgr |-> m, op |-> op, pc |-> "executor", c |-> <<>>, seq0 |-> 0,
     exposed |-> <<>>, exc |-> "", outcome |-> ""]

\* checkpoint() up to the await of the save: the record is built from the
\* counter and the clock, and hashed.
AtSave(call, ag) ==
    [call EXCEPT !.pc = "save",
                 !.c = <<BuildCheckpoint(managers[call.mgr], clock)>>,
                 !.seq0 = managers[call.mgr].sequence,
                 !.exposed = ag]

\* AgentResurrection(agent=ResearchAgent()): a manager with a generated id
\* and an executor attached.
ConstructWithAgent(agent_id) ==
    /\ agent_id \notin KnownIds
    /\ storages' = Append(storages, <<>>)
    /\ managers' = Append(managers, NewManager(agent_id, Len(storages) + 1))
    /\ origin' = Append(origin, <<>>)
    /\ agents' = (Len(managers) + 1 :> ResearchAgent) @@ agents
    /\ last' = Call("construct", agent_id, Len(managers) + 1, "ok", <<>>, <<>>)
    /\ UNCHANGED <<hot_files, cold_files, clock, log, calls, probe>>

\* execute(task) is called and runs to its first await.
BeginExecute(m) ==
    /\ m \in DOMAIN managers
    /\ IF FirstStep(m \in DOMAIN agents) = "executor"
           THEN /\ calls' = Append(calls, NewCall(m, "execute"))
                /\ UNCHANGED clock
           ELSE /\ calls' = Append(calls, AtSave(NewCall(m, "execute"), Exposed(m)))
                /\ clock' = clock + 1
    /\ UNCHANGED <<hot_files, cold_files, storages, managers, log, origin,
                   last, agents, probe>>

\* hibernate() is called and runs to the await of the save.
BeginHibernate(m) ==
    /\ m \in DOMAIN managers
    /\ calls' = Append(calls, AtSave(NewCall(m, "hibernate"), Exposed(m)))
    /\ clock' = clock + 1
    /\ UNCHANGED <<hot_files, cold_files, storages, managers, log, origin,
                   last, agents, probe>>

\* The executor's call of call i returns: the executor has run the task,
\* execute() goes on to checkpoint().
ExecutorReturns(i) ==
    /\ i \in DOMAIN calls /\ calls[i].pc = "executor"
    /\ LET m == calls[i].mgr
           ag == RunTask(agents[m], i)
       IN  /\ agents' = [agents EXCEPT ![m] = ag]
           /\ calls' = [calls EXCEPT ![i] = AtSave(@, <<ag>>)]
    /\ clock' = clock + 1
    /\ UNCHANGED <<hot_files, cold_files, storages, managers, log, origin,
                   last, probe>>

\* Exception exc is raised in call i where it is suspended.
Throw(i, exc) ==
    LET call == calls[i]
        m == call.mgr
    IN  IF OnException(call.pc) = "done"
            THEN /\ calls' = [calls EXCEPT ![i] =
                                [@ EXCEPT !.pc = "done", !.outcome = exc]]
                 /\ last' = Call(call.op, managers[m].agent_id, m, exc, <<>>, <<>>)
                 /\ UNCHANGED clock
            ELSE /\ calls' = [calls EXCEPT ![i] =
                                [(IF call.c = <<>> THEN AtSave(call, Exposed(m))
                                                   ELSE call) EXCEPT !.exc = exc]]
                 /\ clock' = IF call.c = <<>> THEN clock + 1 ELSE clock
                 /\ UNCHANGED last

\* The executor's call of call i raises.
ExecutorRaises(i) ==
    /\ i \in DOMAIN calls /\ calls[i].pc = "executor" /\ calls[i].exc = ""
    /\ Throw(i, "ExecutorError")
    /\ UNCHANGED <<hot_files, cold_files, storages, managers, log, origin,
                   agents, probe>>

\* Call i is cancelled where it is suspended (asyncio.CancelledError).
Cancel(i) ==
    /\ i \in DOMAIN calls /\ calls[i].pc \in {"executor", "save"}
    /\ calls[i].exc = ""
    /\ Throw(i, "Cancelled")
    /\ UNCHANGED <<hot_files, cold_files, storages, managers, log, origin,
                   agents, probe>>

\* The save of call i runs and returns: every tier is written with the
\* record built before the await, then checkpoint() advances the counters
\* as they are now.
SaveReturns(i) ==
    /\ i \in DOMAIN calls /\ calls[i].pc = "save"
    /\ LET call == calls[i]
           m == call.mgr
           mgr == managers[m]
           c == call.c[1]
           outcome == IF call.exc = "" THEN "ok" ELSE call.exc
       IN  /\ storages' = [storages EXCEPT ![mgr.storage] = HotCachePut(@, c)]
           /\ hot_files' = WriteHot(hot_files, c)
           /\ cold_files' = WriteCold(cold_files, c)
           /\ managers' = [managers EXCEPT ![m] = AfterCheckpoint(@)]
           /\ log' = Append(log, [op |-> call.op, mgr |-> m,
                                  nth |-> mgr.checkpoints_saved, rec |-> c])
           /\ calls' = [calls EXCEPT ![i] =
                          [@ EXCEPT !.pc = "done", !.outcome = outcome]]
           /\ last' = Call(call.op, mgr.agent_id, m, outcome,
                           <<[c EXCEPT !.storage = Locators(c)]>>, <<>>)
    /\ UNCHANGED <<clock, origin, agents, probe>>

NextCalls ==
    \/ \E a \in Agents : Len(managers) < MaxManagers /\ ConstructFresh(a)
    \/ \E a \in Agents : Len(managers) < MaxManagers /\ ConstructWithAgent(a)
    \/ \E m \in 1..MaxManagers : Len(calls) < MaxCalls /\ BeginExecute(m)
    \/ \E m \in 1..MaxManagers : Len(calls) < MaxCalls /\ BeginHibernate(m)
    \/ \E i \in 1..MaxCalls : ExecutorReturns(i)
    \/ \E i \in 1..MaxCalls : ExecutorRaises(i)
    \/ \E i \in 1..MaxCalls : Cancel(i)
    \/ \E i \in 1..MaxCalls : SaveReturns(i)

SpecCalls == Init /\ [][NextCalls]_vars

\* compute_hash as a function: a record, the same record with the keys of
\* its dicts inserted in another order, and the digests computed of them.
\* The dict d with its pairs inserted in the reverse order.
Reorder(d) == [i \in 1..Len(d) |-> d[Len(d) + 1 - i]]

\* The memory dicts of the records handed to compute_hash.
ProbeMemories ==
    { << <<"short_term", "[]">>, <<"checksum", "sha256(memory)[:16]">> >>,
      << <<"short_term", "[t1]">>, <<"checksum", "sha256(memory)[:16]">> >> }

\* The records handed to compute_hash: AgentCheckpoint objects as checkpoint()
\* constructs them, for each agent id, sequence number and memory.
ProbeRecords ==
    { [BuildCheckpoint([agent_id |-> a, storage |-> 0, sequence |-> n,
                        checkpoints_saved |-> n], 0) EXCEPT !.memory = mem] :
        a \in Agents, n \in 0..MaxProbeSeq, mem \in ProbeMemories }

InitHash ==
    /\ hot_files = <<>>
    /\ cold_files = <<>>
    /\ storages = <<>>
    /\ managers = <<>>
    /\ clock = 0
    /\ log = <<>>
    /\ origin = <<>>
    /\ last = NoCall
    /\ agents = <<>>
    /\ calls = <<>>
    /\ probe \in {[rec |-> r, digests |-> <<>>] : r \in ProbeRecords}

\* checkpoint.compute_hash(): reads the record, returns the digest.
ProbeHash ==
    /\ probe' = [probe EXCEPT !.digests =
                    Append(@, [of |-> probe.rec, digest |-> compute_hash(probe.rec)])]
    /\ UNCHANGED <<hot_files, cold_files, storages, managers, clock, log,
                   origin, last, agents, calls>>

\* The caller rebuilds one dict of the record with the same key/value pairs
\* in another key order.
ProbeReorder(field) ==
    /\ probe' = [probe EXCEPT !.rec = [probe.rec EXCEPT ![field] = Reorder(@)]]
    /\ UNCHANGED <<hot_files, cold_files, storages, managers, clock, log,
                   origin, last, agents, calls>>

NextHash ==
    \/ Len(probe.digests) < MaxProbeCalls /\ ProbeHash
    \/ \E f \in {"identity", "memory", "tasks"} : ProbeReorder(f)

SpecHash == InitHash /\ [][NextHash]_vars

\* compute_hash and the fields of the record: a record is hashed as
\* checkpoint() built it, then its fields are assigned other values (the
\* dataclass is mutable) and it is hashed again, as a verification would.
\* Another value for a field the caller assigns.
OtherValue(c, field) ==
    CASE field = "timestamp" -> IF c.timestamp = 0 THEN 1 ELSE 0
      [] field = "context" ->
            IF c.context = << <<"session_id", "sess_other">> >>
                THEN << <<"session_id", "sess_" \o ToString(c.sequence)>> >>
                ELSE << <<"session_id", "sess_other">> >>
      [] field = "storage" -> IF c.storage = <<>> THEN Locators(c) ELSE <<>>

\* The caller assigns the record's timestamp, context or storage.
ProbeTouch(field) ==
    /\ probe' = [probe EXCEPT !.rec =
                    [probe.rec EXCEPT ![field] = OtherValue(probe.rec, field)]]
    /\ UNCHANGED <<hot_files, cold_files, storages, managers, clock, log,
                   origin, last, agents, calls>>

\* The caller assigns the record's agent_id and sequence.
ProbeRebind(agent_id, n) ==
    /\ <<agent_id, n>> # <<probe.rec.agent_id, probe.rec.sequence>>
    /\ probe' = [probe EXCEPT !.rec =
                    [probe.rec EXCEPT !.agent_id = agent_id, !.sequence = n]]
    /\ UNCHANGED <<hot_files, cold_files, storages, managers, clock, log,
                   origin, last, agents, calls>>

NextFields ==
    \/ probe.digests = <<>> /\ ProbeHash
    \/ \E f \in {"timestamp", "context", "storage"} :
        probe.digests # <<>> /\ ProbeTouch(f)
    \/ \E a \in Agents, n \in 0..MaxProbeSeq :
        probe.digests # <<>> /\ ProbeRebind(a, n)

SpecFields == InitHash /\ [][NextFields]_vars

\* ------------------------------------------------------------- properties
\* The record a checkpoint file's text holds.
RecordOf(text) == FromDict(json_loads(text))

\* The sequence numbers archived for agent_id.
ArchivedSeqs(agent_id) == {k[2] : k \in {x \in DOMAIN cold_files : x[1] = agent_id}}

\* Whether two records agree in every field but the storage locators.
SameButStorage(x, y) ==
    /\ x.agent_id = y.agent_id /\ x.sequence = y.sequence
    /\ x.timestamp = y.timestamp /\ x.state_hash = y.state_hash
    /\ x.identity = y.identity /\ x.memory = y.memory
    /\ x.tasks = y.tasks /\ x.context = y.context

\* C1: of any two checkpoints persisted for one agent_id, the one created
\* earlier has the strictly smaller sequence number, whatever managers made
\* them.
C1_SequenceStrictlyIncreasing ==
    \A i, j \in DOMAIN log :
        (i < j /\ log[i].rec.agent_id = log[j].rec.agent_id)
            => log[i].rec.sequence < log[j].rec.sequence

\* C2: a manager that resurrect made while its agent's newest checkpoint was
\* the one a hibernate() returned, with sequence n, is bound to the same
\* agent_id, has counter n + 1 until it checkpoints, and persists sequence
\* n + 1 with its first execute.
C2_ResurrectionContinuity ==
    \A m \in DOMAIN managers :
        (origin[m] # <<>> /\ origin[m][1].op = "hibernate") =>
            LET n == origin[m][1].rec.sequence
            IN  /\ managers[m].agent_id = origin[m][1].rec.agent_id
                /\ managers[m].checkpoints_saved = 0 => managers[m].sequence = n + 1
                /\ \A i \in DOMAIN log :
                    (log[i].mgr = m /\ log[i].nth = 0 /\ log[i].op = "execute")
                        => /\ log[i].rec.sequence = n + 1
                           /\ log[i].rec.agent_id = managers[m].agent_id

\* C2's case: a manager resurrected from a hibernate checkpoint has executed.
C2_Witness ==
    \E m \in DOMAIN managers, i \in DOMAIN log :
        /\ origin[m] # <<>> /\ origin[m][1].op = "hibernate"
        /\ log[i].mgr = m /\ log[i].nth = 0 /\ log[i].op = "execute"

\* C3: right after a save returned, load on the saving storage instance and
\* load on a storage instance made afresh both return a record equal to the
\* saved one in every field but the storage locators, and whose state_hash
\* is its recomputed hash.
C3_RoundTrip ==
    (last.op \in {"execute", "hibernate"} /\ last.outcome = "ok") =>
        LET r == last.ret[1]
            same == load_checkpoint(storages[managers[last.mgr].storage],
                                    hot_files, r.agent_id)
            fresh == load_checkpoint(<<>>, hot_files, r.agent_id)
        IN  /\ same # <<>> /\ fresh # <<>>
            /\ SameButStorage(same[1], r) /\ SameButStorage(fresh[1], r)
            /\ same[1].state_hash = compute_hash(same[1])
            /\ fresh[1].state_hash = compute_hash(fresh[1])

\* C3's case: a save has returned for an agent that already had an older
\* record stored, so the load has an older record to confuse it with.
C3_Witness ==
    /\ last.op \in {"execute", "hibernate"} /\ last.outcome = "ok"
    /\ Len(SavedOf(last.agent)) >= 2
    /\ last.ret[1].storage # <<>>

\* C4: load and resurrect never return a record whose state_hash differs from
\* the hash recomputed from its fields: they fail with an integrity error.
C4_IntegrityCheckedOnLoad ==
    (last.op = "resurrect" /\ last.ret # <<>>) =>
        /\ last.ret[1].state_hash = compute_hash(last.ret[1])
        /\ last.outcome = "ok"

\* C5: resurrect for an agent_id with no stored record ends with NotFound,
\* returns no record, constructs no manager and no storage entry, and leaves
\* every tier without an entry for that agent_id.
C5_NotFoundLeavesNothing ==
    [][\A a \in Agents :
        (/\ a \notin DOMAIN hot_files
         /\ ArchivedSeqs(a) = {}
         /\ last'.op = "resurrect" /\ last'.agent = a)
        => /\ last'.outcome = "NotFound" /\ last'.ret = <<>> /\ last'.mgr = 0
           /\ managers' = managers /\ storages' = storages
           /\ a \notin DOMAIN hot_files'
           /\ \A k \in DOMAIN cold_files' : k[1] # a
           /\ hot_files' = hot_files /\ cold_files' = cold_files]_vars

\* C5's case: a resurrect of an unknown agent_id has ended with NotFound
\* while another agent has records stored.
C5_Witness ==
    /\ last.op = "resurrect" /\ last.outcome = "NotFound"
    /\ last.agent \notin DOMAIN hot_files
    /\ hot_files # <<>>

\* C6: the archival tier holds one record for each (agent_id, sequence) ever
\* saved, and no operation overwrites or changes an entry once written.
C6_ArchiveAppendOnly ==
    [][/\ DOMAIN cold_files' =
            {<<log'[i].rec.agent_id, log'[i].rec.sequence>> : i \in DOMAIN log'}
       /\ \A k \in DOMAIN cold_files :
            k \in DOMAIN cold_files' /\ cold_files'[k] = cold_files[k]]_vars

\* C7: for each agent_id with a saved checkpoint the fast tier holds one
\* record, the archived record with the highest sequence number.
C7_FastTierHoldsHighest ==
    \A a \in Agents :
        SavedOf(a) # <<>> =>
            /\ a \in DOMAIN hot_files
            /\ \A n \in ArchivedSeqs(a) : n <= RecordOf(hot_files[a]).sequence
            /\ <<a, RecordOf(hot_files[a]).sequence>> \in DOMAIN cold_files
            /\ cold_files[<<a, RecordOf(hot_files[a]).sequence>>] = hot_files[a]

\* C8: once a save has returned, load for that agent_id returns the saved
\* record until the next save for it, through every storage instance.
C8_SaveVisibleToEveryLoad ==
    \A s \in DOMAIN storages, a \in Agents :
        LatestSaved(a) # <<>> =>
            load_checkpoint(storages[s], hot_files, a) = <<LatestSaved(a)[1].rec>>

\* Whether the cache of storage instance s, the hot file and the cold file
\* hold record c.
InCache(s, c) ==
    c.agent_id \in DOMAIN storages[s] /\ FromDict(storages[s][c.agent_id]) = c
InHotFile(c) ==
    c.agent_id \in DOMAIN hot_files /\ RecordOf(hot_files[c.agent_id]) = c
InColdFile(c) ==
    /\ <<c.agent_id, c.sequence>> \in DOMAIN cold_files
    /\ RecordOf(cold_files[<<c.agent_id, c.sequence>>]) = c

\* C9: after a save that failed, load returns what it returned before the
\* attempt, and no tier holds the attempted record while another lacks it.
C9_FailedSaveLeavesNoTrace ==
    last.outcome = "StorageWriteError" =>
        LET c == last.ret[1]
            s == managers[last.mgr].storage
        IN  /\ load_checkpoint(storages[s], hot_files, c.agent_id) = last.before
            /\ InCache(s, c) = InHotFile(c)
            /\ InHotFile(c) = InColdFile(c)

\* The executes of manager m that returned.
Executes(m) == Cardinality({i \in DOMAIN log : log[i].mgr = m /\ log[i].op = "execute"})

\* C10: in the end-to-end run, once the agent is resurrected after k
\* executes and a hibernate, and has executed m more tasks, the archival
\* tier holds exactly the k + 1 + m records with sequences 0..k+m, the fast
\* tier holds only the record with sequence k + m, and every stored record's
\* state_hash is its recomputed hash.
C10_EndToEndHistory ==
    Len(managers) = 2 =>
        LET a == managers[1].agent_id
            k == Executes(1)
            m == Executes(2)
        IN  /\ DOMAIN cold_files = {<<a, n>> : n \in 0..(k + m)}
            /\ Cardinality(DOMAIN cold_files) = k + 1 + m
            /\ DOMAIN hot_files = {a}
            /\ RecordOf(hot_files[a]).sequence = k + m
            /\ RecordOf(hot_files[a]).state_hash = compute_hash(RecordOf(hot_files[a]))
            /\ \A key \in DOMAIN cold_files :
                /\ RecordOf(cold_files[key]).agent_id = key[1]
                /\ RecordOf(cold_files[key]).sequence = key[2]
                /\ RecordOf(cold_files[key]).state_hash
                        = compute_hash(RecordOf(cold_files[key]))

\* C10's case: the spec's run, k = 3 and m = 1, five records.
C10_Witness ==
    /\ Len(managers) = 2 /\ Executes(1) = 3 /\ Executes(2) = 1
    /\ Cardinality(DOMAIN cold_files) = 5

\* The managers bound to agent_id.
ManagersOf(agent_id) == {m \in DOMAIN managers : managers[m].agent_id = agent_id}

\* Whether everything kept for agent_id (the counters of its managers, its
\* cache entries, its hot file and its archive) is the same after the step.
AgentUntouched(agent_id) ==
    /\ \A m \in ManagersOf(agent_id) : managers'[m] = managers[m]
    /\ \A s \in DOMAIN storages :
        /\ (agent_id \in DOMAIN storages'[s]) = (agent_id \in DOMAIN storages[s])
        /\ agent_id \in DOMAIN storages[s]
                => storages'[s][agent_id] = storages[s][agent_id]
    /\ (agent_id \in DOMAIN hot_files') = (agent_id \in DOMAIN hot_files)
    /\ agent_id \in DOMAIN hot_files => hot_files'[agent_id] = hot_files[agent_id]
    /\ \A k \in DOMAIN cold_files \cup DOMAIN cold_files' :
        k[1] = agent_id
            => /\ k \in DOMAIN cold_files /\ k \in DOMAIN cold_files'
               /\ cold_files'[k] = cold_files[k]

\* Whether the saves of an agent with one manager are those of that manager
\* running alone: sequences 0, 1, 2, ... in creation order.
RunsAsAlone(agent_id) ==
    Cardinality(ManagersOf(agent_id)) = 1
        => \A i \in DOMAIN SavedOf(agent_id) :
               SavedOf(agent_id)[i].rec.sequence = i - 1

\* C11: an execute() or hibernate() of a manager bound to one agent_id leaves
\* every other agent's counters, fast-tier entry and archive entries as they
\* were, and an agent with a single manager persists the sequences it would
\* persist running alone, however the calls of the agents interleave.
C11_AgentIndependence ==
    [][\A a \in Agents :
          (clock' # clock /\ last'.op \in {"execute", "hibernate"}
                /\ last'.agent = a /\ last'.outcome = "ok")
              => /\ \A b \in Agents \ {a} : AgentUntouched(b)
                 /\ \A b \in Agents : RunsAsAlone(b)']_vars

\* C11's case: two managers bound to distinct ids, their saves interleaved,
\* the second agent's fast tier and archive existing while the first saves.
C11_Witness ==
    /\ Len(managers) = 2 /\ managers[1].agent_id # managers[2].agent_id
    /\ Len(log) = 3 /\ log[1].mgr = log[3].mgr /\ log[2].mgr # log[1].mgr
    /\ DOMAIN hot_files = Agents

\* C12: compute_hash gives one digest for a record however the keys of its
\* identity, memory and tasks dicts are ordered and however often it is
\* called, and a call leaves the record as it was.
C12_HashOrderIndependent ==
    [][Len(probe'.digests) > Len(probe.digests)
          => /\ probe'.rec = probe.rec
             /\ \A i, j \in DOMAIN probe'.digests :
                    probe'.digests[i].digest = probe'.digests[j].digest]_vars

\* C12's case: two digests of records that hold the same pairs with the keys
\* of all three dicts in different orders.
C12_Witness ==
    /\ Len(probe.digests) = 2
    /\ probe.digests[1].of.identity # probe.digests[2].of.identity
    /\ probe.digests[1].of.memory # probe.digests[2].of.memory
    /\ probe.digests[1].of.tasks # probe.digests[2].of.tasks
    /\ probe.digests[1].of.identity = Reorder(probe.digests[2].of.identity)

\* The checkpoints manager m has persisted, in the order the saves returned.
PersistedBy(m) == SelectSeq(log, LAMBDA e : e.mgr = m)

\* C13: the execute() and hibernate() calls of one manager, however they
\* interleave where they await, persist pairwise different sequence
\* numbers, and the N calls that completed persisted N consecutive integers.
C13_PerInstanceSerialization ==
    \A m \in DOMAIN managers :
        LET saved == PersistedBy(m)
            seqs == {saved[i].rec.sequence : i \in DOMAIN saved}
        IN  /\ Cardinality(seqs) = Len(saved)
            /\ \A n \in seqs : n + 1 \in seqs \/ (\A k \in seqs : k <= n)

\* C15: two checkpoints of one manager with an attached executor, built
\* while the executor exposed different memories, differ in memory: each
\* snapshots what the executor exposes when it is taken.
C15_SnapshotsExecutorState ==
    \A i, j \in DOMAIN calls :
        (/\ calls[i].outcome = "ok" /\ calls[j].outcome = "ok"
         /\ calls[i].mgr = calls[j].mgr
         /\ calls[i].exposed # <<>> /\ calls[j].exposed # <<>>
         /\ calls[i].exposed[1].memory # calls[j].exposed[1].memory)
            => calls[i].c[1].memory # calls[j].c[1].memory

\* C16: when the executor's call raises, execute() ends with that failure
\* without having built a checkpoint, and no tier, no counter and no saved
\* count changes.
C16_ExecutorFailureWritesNothing ==
    [][\A i \in DOMAIN calls :
          (calls[i].outcome = "" /\ calls'[i].outcome = "ExecutorError")
              => /\ calls'[i].c = <<>>
                 /\ calls[i].pc = "executor"
                 /\ UNCHANGED <<hot_files, cold_files, storages, managers, log>>]_vars

\* C16's case: the executor fails in an execute() of a manager that has
\* persisted a checkpoint before.
C16_Witness ==
    \E i \in DOMAIN calls :
        /\ calls[i].outcome = "ExecutorError"
        /\ managers[calls[i].mgr].sequence > 0
        /\ managers[calls[i].mgr].agent_id \in DOMAIN hot_files

\* C18: an execute() that succeeds, with or without an executor, persists
\* one checkpoint, whose sequence is the counter read at the start of the
\* checkpoint step, after the executor (if any) has run the task; the
\* counter then grows by one and the manager stays usable.
C18_ExecuteMechanics ==
    [][\A i \in DOMAIN calls :
          (calls[i].op = "execute" /\ calls[i].outcome = ""
                /\ calls'[i].outcome = "ok")
              => LET m == calls[i].mgr
                     c == calls[i].c[1]
                     key == <<c.agent_id, c.sequence>>
                 IN  /\ c.sequence = calls[i].seq0
                     /\ Len(log') = Len(log) + 1
                     /\ log'[Len(log')].rec = c /\ log'[Len(log')].mgr = m
                     /\ key \in DOMAIN cold_files'
                     /\ RecordOf(cold_files'[key]) = c
                     /\ DOMAIN cold_files' \subseteq DOMAIN cold_files \cup {key}
                     /\ RecordOf(hot_files'[c.agent_id]) = c
                     /\ m \in DOMAIN agents
                            => \E k \in DOMAIN agents[m].memory :
                                   agents[m].memory[k] = i
                     /\ managers'[m].sequence = managers[m].sequence + 1
                     /\ m \in DOMAIN managers']_vars

\* C18's case: an execute() of a manager with an executor and one of a
\* manager without have both succeeded.
C18_Witness ==
    \E i, j \in DOMAIN calls :
        /\ calls[i].op = "execute" /\ calls[i].outcome = "ok"
        /\ calls[j].op = "execute" /\ calls[j].outcome = "ok"
        /\ calls[i].exposed = <<>> /\ calls[j].exposed # <<>>

\* C19: when a call is cancelled where it awaits, the record of that
\* attempt is in no tier, and no tier and no counter changes.
C19_CancellationWritesNothing ==
    [][\A i \in DOMAIN calls :
          (calls[i].outcome = "" /\ calls'[i].outcome = "Cancelled")
              => /\ UNCHANGED <<hot_files, cold_files, storages, managers, log>>
                 /\ calls[i].c # <<>>
                        => /\ ~InHotFile(calls[i].c[1])'
                           /\ ~InColdFile(calls[i].c[1])'
                           /\ \A s \in DOMAIN storages' :
                                  ~InCache(s, calls[i].c[1])']_vars

\* C19's case: one execute() cancelled in the executor's call and one
\* cancelled at the save, with its record built.
C19_Witness ==
    \E i, j \in DOMAIN calls :
        /\ calls[i].op = "execute" /\ calls[i].outcome = "Cancelled"
        /\ calls[j].op = "execute" /\ calls[j].outcome = "Cancelled"
        /\ calls[i].c = <<>> /\ calls[j].c # <<>>

\* C14: once hibernate() has returned to a manager, that manager persists
\* no further checkpoint.
C14_HibernateIsFinal ==
    \A i, j \in DOMAIN log :
        (i < j /\ log[i].op = "hibernate") => log[j].mgr # log[i].mgr

\* C17: an execute() or hibernate() whose save raises ends with that
\* failure after one attempt: the manager's counter and saved count, and
\* the list of returned checkpoints, are as before, and the record a retry
\* would build carries the sequence number of the failed attempt.
C17_StorageFailureIsHard ==
    [][(clock' # clock /\ last'.outcome = "StorageWriteError")
          => LET m == last'.mgr
             IN  /\ last'.op \in {"execute", "hibernate"}
                 /\ clock' = clock + 1
                 /\ managers' = managers
                 /\ log' = log
                 /\ last'.ret[1].sequence = managers[m].sequence
                 /\ BuildCheckpoint(managers'[m], clock').sequence
                        = last'.ret[1].sequence]_vars

\* C17's case: the save of an execute() has just failed for a manager that
\* has persisted a checkpoint before.
C17_Witness ==
    /\ last.outcome = "StorageWriteError" /\ last.op = "execute"
    /\ managers[last.mgr].sequence = 1
    /\ managers[last.mgr].checkpoints_saved = 1

\* C20: for an agent with no fast-tier entry (no cache entry, no hot file)
\* whose archive holds records, load returns the archived record with the
\* highest sequence.
C20_ArchivalFallback ==
    \A a \in Agents :
        (a \notin DOMAIN hot_files /\ ArchivedSeqs(a) # {})
            => LET n == CHOOSE x \in ArchivedSeqs(a) :
                            \A y \in ArchivedSeqs(a) : y <= x
               IN  load_checkpoint(<<>>, hot_files, a)
                        = <<RecordOf(cold_files[<<a, n>>])>>

\* Whether a checkpoint of agent_id is persisted: in its hot file or in its
\* archive.
Persisted(agent_id) == agent_id \in DOMAIN hot_files \/ ArchivedSeqs(agent_id) # {}

\* C21: whenever a checkpoint of an agent is persisted, load() of that agent
\* finds a checkpoint and makes a manager bound to the agent that resumes
\* after it, whatever hibernations and resurrections came before; a load()
\* that found nothing was of an agent with nothing persisted.
C21_NoTerminalState ==
    /\ \A a \in Agents :
        Persisted(a)
            => LET cp == load_checkpoint(<<>>, hot_files, a)
                   made == LoadInstances(cp, a, Len(storages) + 1)
               IN  /\ cp # <<>>
                   /\ Len(made) = 1
                   /\ made[1].agent_id = a
                   /\ made[1].sequence = cp[1].sequence + 1
    /\ (last.op = "resurrect" /\ last.outcome = "NotFound") => ~Persisted(last.agent)

\* C21's case: a manager made by load() after a hibernate() has itself
\* hibernated, and its agent can be resurrected once more.
C21_Witness ==
    \E m \in DOMAIN managers :
        /\ origin[m] # <<>> /\ origin[m][1].op = "hibernate"
        /\ Hibernated(m)
        /\ Persisted(managers[m].agent_id)

\* Whether two records agree on agent_id, sequence, identity, memory, tasks.
SameHashedFields(x, y) ==
    /\ x.agent_id = y.agent_id /\ x.sequence = y.sequence
    /\ x.identity = y.identity /\ x.memory = y.memory /\ x.tasks = y.tasks

\* C22: a record that agrees with a hashed record on agent_id, sequence,
\* identity, memory and tasks has the same compute_hash, whatever its
\* timestamp, context and storage; a record that differs from it in
\* agent_id or sequence is hashed from a different payload.
C22_HashCoversFiveFields ==
    \A i \in DOMAIN probe.digests :
        LET o == probe.digests[i].of
            r == probe.rec
        IN  /\ SameHashedFields(o, r) => compute_hash(r) = probe.digests[i].digest
            /\ (o.agent_id # r.agent_id \/ o.sequence # r.sequence)
                    => HashPayload(o) # HashPayload(r)

\* C22's case: the record agrees with the hashed one on the five fields and
\* differs from it in timestamp, context and storage.
C22_Witness ==
    /\ probe.digests # <<>>
    /\ SameHashedFields(probe.digests[1].of, probe.rec)
    /\ probe.digests[1].of.timestamp # probe.rec.timestamp
    /\ probe.digests[1].of.context # probe.rec.context
    /\ probe.digests[1].of.storage # probe.rec.storage

\* C23: a load_checkpoint() or a load() of any agent, found or not, leaves
\* every hot file, every archive file and every hot cache as it was, writes
\* nothing into the cache of the storage it makes, and persists nothing.
C23_LoadIsReadOnly ==
    [][(last' # last /\ last'.op \in {"load", "resurrect"})
          => /\ hot_files' = hot_files
             /\ cold_files' = cold_files
             /\ log' = log
             /\ \A s \in DOMAIN storages : storages'[s] = storages[s]
             /\ \A s \in DOMAIN storages' \ DOMAIN storages :
                    storages'[s] = <<>>]_vars

\* C23's case: a load_checkpoint() has just found a record, in a run in
\* which a load() made a manager and another load() found nothing.
C23_Witness ==
    /\ last.op = "load" /\ last.outcome = "ok"
    /\ \E m \in DOMAIN managers : origin[m] # <<>>
    /\ \E a \in Agents : ~Persisted(a)

\* Whether a stored record carries the hash of its own fields and no
\* storage locators.
StoredAsBuilt(c) == c.state_hash = compute_hash(c) /\ c.storage = <<>>

\* C24: every record in a hot cache, a hot file or an archive file has
\* state_hash equal to compute_hash of its fields and an empty storage map,
\* while the record execute() or hibernate() returned to the caller has a
\* locator for each of hot, cold, ipfs and arweave.
C24_StoredWithoutLocators ==
    /\ \A a \in DOMAIN hot_files : StoredAsBuilt(RecordOf(hot_files[a]))
    /\ \A k \in DOMAIN cold_files : StoredAsBuilt(RecordOf(cold_files[k]))
    /\ \A s \in DOMAIN storages :
        \A a \in DOMAIN storages[s] : StoredAsBuilt(FromDict(storages[s][a]))
    /\ (last.op \in {"execute", "hibernate"} /\ last.outcome = "ok")
            => /\ DOMAIN last.ret[1].storage = {"hot", "cold", "ipfs", "arweave"}
               /\ last.ret[1].state_hash = compute_hash(last.ret[1])

\* C24's case: an execute() has returned its record, which is stored in the
\* cache, the hot file and the archive without the locators it carries.
C24_Witness ==
    /\ last.op = "execute" /\ last.outcome = "ok"
    /\ last.ret[1].storage # <<>>
    /\ InHotFile([last.ret[1] EXCEPT !.storage = <<>>])
    /\ InColdFile([last.ret[1] EXCEPT !.storage = <<>>])
    /\ InCache(managers[last.mgr].storage, [last.ret[1] EXCEPT !.storage = <<>>])

\* C25: a manager constructed directly starts with counter 0 and leaves the
\* files as they are, whatever they hold for its agent_id; its first
\* checkpoint has sequence 0, is written at key (agent_id, 0) and is the
\* record of the agent's hot file.
C25_ExplicitIdStartsAtZero ==
    [][/\ (last' # last /\ last'.op = "construct")
            => /\ managers'[last'.mgr].sequence = 0
               /\ managers'[last'.mgr].agent_id = last'.agent
               /\ hot_files' = hot_files /\ cold_files' = cold_files
       /\ Len(log') > Len(log)
            => LET e == log'[Len(log')]
                   a == e.rec.agent_id
               IN  (origin[e.mgr] = <<>> /\ e.nth = 0)
                       => /\ e.rec.sequence = 0
                          /\ <<a, 0>> \in DOMAIN cold_files'
                          /\ RecordOf(cold_files'[<<a, 0>>]) = e.rec
                          /\ RecordOf(hot_files'[a]) = e.rec]_vars

\* C25's case: a manager constructed directly for an agent whose archive
\* already held sequence 1 has written its first checkpoint, at sequence 0.
C25_Witness ==
    \E i, j \in DOMAIN log :
        /\ i < j /\ j = Len(log)
        /\ log[i].rec.agent_id = log[j].rec.agent_id
        /\ log[i].rec.sequence = 1
        /\ origin[log[j].mgr] = <<>> /\ log[j].nth = 0 /\ log[j].mgr # log[i].mgr
        /\ RecordOf(hot_files[log[j].rec.agent_id]).sequence = 0
====
